---- MODULE Spec2Model ----
(***************************************************************************)
(* Model of the context resolution engine of monaco-xsd-code-completion:   *)
(* XsdCompletion (classification, tag stack, namespace registry, schema    *)
(* selection), XsdManager and CodeSuggestionCache.                         *)
(*                                                                         *)
(* JavaScript values: `Undefined` stands for undefined.  A JS array is a   *)
(* sequence whose element k+1 is the array's element k; a hole of a sparse *)
(* array holds Undefined.  A JS string is a sequence of one-character      *)
(* strings where the code looks inside it (regular expressions, split),    *)
(* and a TLA+ string where the code only compares or stores it.            *)
(***************************************************************************)
EXTENDS Integers, Sequences, FiniteSets, TLC

VARIABLES
    \* CodeSuggestionCache fields (src/src/XsdCompletion.ts:317-319)
    nodeMap, elementCollections, attributeCollections,
    \* instrumentation of the cache's callers and of the schema provider stub
    calls,
    \* getUnclosedTags: its input, its local array and its position
    tags, parentTags, tagIdx, pc,
    \* the document's namespace declarations and schema-location hints, and the
    \* registry getXsdNamespaces builds from them
    doc, registry, built,
    \* XsdManager.xsdWorkers, and the last getXsdWorkersForNamespace call
    xsdWorkers, selected,
    \* the text model: its characters and the cursor's offset in them, and the
    \* last completion request made on it
    text, offset, request

cacheVars == <<nodeMap, elementCollections, attributeCollections, calls>>
scanVars == <<tags, parentTags, tagIdx, pc>>
nsVars == <<doc, registry, built>>
managerVars == <<xsdWorkers, selected>>
textVars == <<text, offset, request>>
vars == <<cacheVars, scanVars, nsVars, managerVars, textVars>>

Undefined == "undefined"

----------------------------------------------------------------------------
(* JavaScript arrays *)

\* arr[i] for a JS index i; out of range (also -1) reads undefined
ArrGet(arr, i) == IF i >= 0 /\ i < Len(arr) THEN arr[i + 1] ELSE Undefined

\* arr[i] = v for a JS index i >= 0; writing past the end leaves holes
ArrSet(arr, i, v) ==
    IF i < Len(arr) THEN [arr EXCEPT ![i + 1] = v]
    ELSE arr \o [k \in 1..(i - Len(arr)) |-> Undefined] \o <<v>>

\* Array.prototype.indexOf: the first index holding x, -1 when none does
IndexOf(arr, x) ==
    IF \E k \in 1..Len(arr) : arr[k] = x
    THEN (CHOOSE k \in 1..Len(arr) : arr[k] = x /\ \A j \in 1..(k - 1) : arr[j] # x) - 1
    ELSE -1

\* Array.prototype.includes
Includes(arr, x) == \E k \in 1..Len(arr) : arr[k] = x

----------------------------------------------------------------------------
(* Bounds *)

MaxCalls == 4
MaxTags == 4
MaxDecls == 2
MaxLocPairs == 2
MaxLine == 4
MaxText == 4

----------------------------------------------------------------------------
(* The schema provider (XsdParser), a stub with fixed, repeatable answers. *)
(* One answer is the empty list: an empty array is truthy in JavaScript.   *)

ElementNames == {"book", "rootElements"}

XsdRootElements == <<"book", "library">>

XsdSubElements(parent) ==
    IF parent = "book" THEN <<"title", "author">> ELSE <<"shelf">>

XsdAttributesForElement(element) ==
    IF element = "book" THEN <<"isbn">> ELSE <<>>

----------------------------------------------------------------------------
(* CodeSuggestionCache.  A cache value c is the record of the three fields *)
(* plus `fetched`, the provider calls made since the public call began.    *)

CacheNow ==
    [nodeMap |-> nodeMap, elementCollections |-> elementCollections,
     attributeCollections |-> attributeCollections, fetched |-> <<>>]

\* Array.prototype.lastIndexOf
LastIndexOf(arr, x) ==
    IF \E k \in 1..Len(arr) : arr[k] = x
    THEN (CHOOSE k \in 1..Len(arr) : arr[k] = x /\ \A j \in (k + 1)..Len(arr) : arr[j] # x) - 1
    ELSE -1

\* a variant that looks the name up from the end of nodeMap
getIndexForNodeLastOccurrence(c, node) == LastIndexOf(c.nodeMap, node)

getIndexForNode(c, node) == IndexOf(c.nodeMap, node)

getElementCollection(c, element) ==
    ArrGet(c.elementCollections, getIndexForNode(c, element))

getAttributeCollection(c, element) ==
    ArrGet(c.attributeCollections, getIndexForNode(c, element))

\* returns <<cache after, value returned>>
setElementCollection(c, element, documentElement) ==
    LET c1 == [c EXCEPT !.nodeMap = Append(@, element)]
        c2 == [c1 EXCEPT !.elementCollections =
                            ArrSet(@, getIndexForNode(c1, element), documentElement)]
    IN  <<c2, getElementCollection(c2, element)>>

setAttributeCollection(c, element, documentAttribute) ==
    LET c1 == [c EXCEPT !.nodeMap = Append(@, element)]
        c2 == [c1 EXCEPT !.attributeCollections =
                            ArrSet(@, getIndexForNode(c1, element), documentAttribute)]
    IN  <<c2, getAttributeCollection(c2, element)>>

getRootElements(c) ==
    setElementCollection([c EXCEPT !.fetched = Append(@, <<"getRootElements">>)],
                         "rootElements", XsdRootElements)

getSubElements(c, parentElement) ==
    setElementCollection(
        [c EXCEPT !.fetched = Append(@, <<"getSubElements", parentElement>>)],
        parentElement, XsdSubElements(parentElement))

getAttributes(c, element) ==
    setAttributeCollection(
        [c EXCEPT !.fetched = Append(@, <<"getAttributesForElement", element>>)],
        element, XsdAttributesForElement(element))

rootElements(c) ==
    LET hit == getElementCollection(c, "rootElements")
    IN  IF hit # Undefined THEN <<c, hit>> ELSE getRootElements(c)

subElements(c, parentElement) ==
    LET hit == getElementCollection(c, parentElement)
    IN  IF hit # Undefined THEN <<c, hit>> ELSE getSubElements(c, parentElement)

elements(c, parentElement) ==
    IF parentElement = Undefined THEN rootElements(c) ELSE subElements(c, parentElement)

attributes(c, element) ==
    LET hit == getAttributeCollection(c, element)
    IN  IF hit # Undefined THEN <<c, hit>> ELSE getAttributes(c, element)

\* One public call on the cache instance, logged with what it fetched and returned.
Commit(op, arg, out) ==
    /\ nodeMap' = out[1].nodeMap
    /\ elementCollections' = out[1].elementCollections
    /\ attributeCollections' = out[1].attributeCollections
    /\ calls' = Append(calls, [fetched |-> out[1].fetched,
                               op |-> op, arg |-> arg, result |-> out[2]])

CallElements ==
    /\ Len(calls) < MaxCalls
    /\ \E parentElement \in ElementNames \cup {Undefined} :
          Commit("elements", parentElement, elements(CacheNow, parentElement))
    /\ UNCHANGED <<scanVars, nsVars, managerVars, textVars>>

CallAttributes ==
    /\ Len(calls) < MaxCalls
    /\ \E element \in ElementNames :
          Commit("attributes", element, attributes(CacheNow, element))
    /\ UNCHANGED <<scanVars, nsVars, managerVars, textVars>>

CacheIdle ==
    /\ nodeMap = <<>>
    /\ elementCollections = <<>>
    /\ attributeCollections = <<>>
    /\ calls = <<>>

----------------------------------------------------------------------------
(* getUnclosedTags (src/src/XsdCompletion.ts:188-203), one array operation *)
(* per step.  pc: "map" between two callbacks of tags.map, "while" inside  *)
(* the loop of a closing token, "done" after the return.                   *)

TagNames == {"a", "b", "c"}

RECURSIVE SeqsUpTo(_, _)
SeqsUpTo(S, n) ==
    IF n = 0 THEN {<<>>}
    ELSE LET shorter == SeqsUpTo(S, n - 1)
         IN  shorter \cup {Append(s, x) : s \in {t \in shorter : Len(t) = n - 1}, x \in S}

Pop(arr) == IF arr = <<>> THEN arr ELSE SubSeq(arr, 1, Len(arr) - 1)

Top(arr) == ArrGet(arr, Len(arr) - 1)

ScanIdle ==
    /\ tags = <<>>
    /\ parentTags = <<>>
    /\ tagIdx = 0
    /\ pc = "idle"

\* tags.map callback entered for the next token
MapCallback ==
    /\ pc = "map"
    /\ tagIdx < Len(tags)
    /\ LET tag == tags[tagIdx + 1]
       IN  IF Includes(parentTags, tag)
           THEN /\ pc' = "while"
                /\ UNCHANGED <<parentTags, tagIdx>>
           ELSE /\ parentTags' = Append(parentTags, tag)
                /\ tagIdx' = tagIdx + 1
                /\ pc' = "map"
    /\ UNCHANGED <<tags, cacheVars, nsVars, managerVars, textVars>>

\* a variant of the loop's exit that leaves the matched tag on the stack
WhileExitWithoutPop ==
    /\ pc = "while"
    /\ Top(parentTags) = tags[tagIdx + 1]
    /\ tagIdx' = tagIdx + 1
    /\ pc' = "map"
    /\ UNCHANGED <<parentTags, tags, cacheVars, nsVars, managerVars, textVars>>

\* while (parentTags[parentTags.length - 1] !== tag) parentTags.pop()
WhilePop ==
    /\ pc = "while"
    /\ Top(parentTags) # tags[tagIdx + 1]
    /\ parentTags' = Pop(parentTags)
    /\ UNCHANGED <<tags, tagIdx, pc, cacheVars, nsVars, managerVars, textVars>>

\* the loop's exit and the parentTags.pop() after it
WhileExit ==
    /\ pc = "while"
    /\ Top(parentTags) = tags[tagIdx + 1]
    /\ parentTags' = Pop(parentTags)
    /\ tagIdx' = tagIdx + 1
    /\ pc' = "map"
    /\ UNCHANGED <<tags, cacheVars, nsVars, managerVars, textVars>>

ScanReturn ==
    /\ pc = "map"
    /\ tagIdx = Len(tags)
    /\ pc' = "done"
    /\ UNCHANGED <<tags, parentTags, tagIdx, cacheVars, nsVars, managerVars, textVars>>


----------------------------------------------------------------------------
(* JavaScript Map: the sequence of its <<key, value>> entries in insertion *)
(* order.  set on a present key keeps the entry's place.                   *)

MapHas(m, k) == \E e \in 1..Len(m) : m[e][1] = k

MapGet(m, k) ==
    IF MapHas(m, k) THEN m[CHOOSE e \in 1..Len(m) : m[e][1] = k][2] ELSE Undefined

MapSet(m, k, v) ==
    IF MapHas(m, k)
    THEN [e \in 1..Len(m) |-> IF m[e][1] = k THEN <<k, v>> ELSE m[e]]
    ELSE Append(m, <<k, v>>)

MapDelete(m, k) ==
    LET keep(e) == e[1] # k
    IN  SelectSeq(m, keep)

----------------------------------------------------------------------------
(* The document text, as far as the four namespace regular expressions see *)
(* it: the well-formed, whitespace-separated attributes they can match.    *)
(*   decls  the xmlns attributes in document order; prefix "" is the       *)
(*          default declaration xmlns="uri"                                *)
(*   locs   the values of the xsi:schemaLocation attributes: the words of  *)
(*          each, and whether whitespace precedes its first word           *)
(*   noNs   the values of the xsi:noNamespaceSchemaLocation attributes     *)

Prefixes == {"p", "q", "xsi"}
Uris == {"u", "p"}   \* the second namespace URI reads like the prefix "p"
Paths == {"a.xsd", "b.xsd"}

NsDecls == [prefix : Prefixes \cup {""}, uri : Uris]

LocPairs == {<<u, path>> : u \in Uris, path \in Paths}

RECURSIVE Flatten(_)
Flatten(pairs) ==
    IF pairs = <<>> THEN <<>> ELSE Head(pairs) \o Flatten(Tail(pairs))

LocValues ==
    {[lead |-> lead, words |-> Flatten(pairs)] :
        lead \in BOOLEAN, pairs \in SeqsUpTo(LocPairs, MaxLocPairs)}

Docs ==
    [decls : SeqsUpTo(NsDecls, MaxDecls),
     locs : {<<>>} \cup {<<value>> : value \in LocValues},
     noNs : {<<>>, <<"a.xsd">>}]

\* 'file://' + match
FileUri(path) == IF path = "a.xsd" THEN "file://a.xsd" ELSE "file://b.xsd"

\* String.prototype.split(/\s+/): leading whitespace yields a first empty string
SplitOnWhitespace(value) ==
    (IF value.lead THEN <<"">> ELSE <<>>) \o value.words

\* (?!xsi|html) right after "xmlns:": of the prefixes above only "xsi" starts so
ExcludedPrefix(prefix) == prefix \in {"xsi", "html"}

\* matches of regexForNamespaces, each already split at '="' into [prefix, uri]
MatchesForNamespaces(d) ==
    LET prefixed(decl) == decl.prefix # "" /\ ~ExcludedPrefix(decl.prefix)
    IN  SelectSeq(d.decls, prefixed)

\* matches of regexForNoNamespaces
MatchesForNoNamespaces(d) ==
    LET default(decl) == decl.prefix = ""
    IN  SelectSeq(d.decls, default)

\* matches of regexForNamespacesSchemaLocations / ...NoNamespacesSchemaLocations
MatchesForSchemaLocations(d) == d.locs

MatchesForNoNamespaceSchemaLocations(d) == d.noNs

RECURSIVE SetEach(_, _)
\* forEach over <<key, value>> pairs: map.set(key, value)
SetEach(m, pairs) ==
    IF pairs = <<>> THEN m
    ELSE SetEach(MapSet(m, Head(pairs)[1], Head(pairs)[2]), Tail(pairs))

\* part = match.split('="'); the entry set is (part[1], part[0])
UriToPrefix(matches) == [k \in 1..Len(matches) |-> <<matches[k].uri, matches[k].prefix>>]

\* the entry set for a default declaration is (match, '')
UriToEmpty(matches) == [k \in 1..Len(matches) |-> <<matches[k].uri, "">>]

\* a variant that reads prefixed and default declarations in one pass
getNamespacesInDocumentOrder(d) ==
    LET extracted(decl) == ~ExcludedPrefix(decl.prefix)
    IN  SetEach(<<>>, UriToPrefix(SelectSeq(d.decls, extracted)))

\* uri -> prefix: all prefixed declarations first, then all default ones
getNamespaces(d) ==
    SetEach(SetEach(<<>>, UriToPrefix(MatchesForNamespaces(d))),
            UriToEmpty(MatchesForNoNamespaces(d)))

RECURSIVE SetOddIndexes(_, _, _)
\* matches.forEach((location, index) => { if (index % 2) map.set(location, matches[index - 1]) })
SetOddIndexes(m, matches, index) ==
    IF index >= Len(matches) THEN m
    ELSE SetOddIndexes(
            IF index % 2 = 1
            THEN MapSet(m, ArrGet(matches, index), ArrGet(matches, index - 1))
            ELSE m,
            matches, index + 1)

RECURSIVE SetLocations(_, _)
SetLocations(m, values) ==
    IF values = <<>> THEN m
    ELSE SetLocations(SetOddIndexes(m, SplitOnWhitespace(Head(values)), 0), Tail(values))

\* path -> uri
getNamespacesSchemaLocations(d) ==
    LET noNs == MatchesForNoNamespaceSchemaLocations(d)
    IN  SetEach(SetLocations(<<>>, MatchesForSchemaLocations(d)),
                [k \in 1..Len(noNs) |-> <<noNs[k], FileUri(noNs[k])>>])

RECURSIVE MatchEntries(_, _, _)
MatchEntries(m, namespaces, entries) ==
    IF entries = <<>> THEN m
    ELSE LET path == Head(entries)[1]
             uri == Head(entries)[2]
         IN  MatchEntries(
                 MapSet(m, uri, [prefix |-> MapGet(namespaces, uri), path |-> path]),
                 namespaces, Tail(entries))

\* a variant that keys the registry by schema path
RECURSIVE MatchEntriesByPath(_, _, _)
MatchEntriesByPath(m, namespaces, entries) ==
    IF entries = <<>> THEN m
    ELSE LET path == Head(entries)[1]
             uri == Head(entries)[2]
         IN  MatchEntriesByPath(
                 MapSet(m, path, [prefix |-> MapGet(namespaces, uri), path |-> path]),
                 namespaces, Tail(entries))

matchKeyedBySchemaPath(namespaces, namespaceSchemaLocations) ==
    MatchEntriesByPath(<<>>, namespaces, namespaceSchemaLocations)

matchNamespacesAndNamespaceSchemaLocations(namespaces, namespaceSchemaLocations) ==
    MatchEntries(<<>>, namespaces, namespaceSchemaLocations)

getXsdNamespaces(d) ==
    matchNamespacesAndNamespaceSchemaLocations(
        getNamespaces(d), getNamespacesSchemaLocations(d))

EmptyDoc == [decls |-> <<>>, locs |-> <<>>, noNs |-> <<>>]

NsIdle == doc = EmptyDoc /\ registry = <<>> /\ built = FALSE

BuildRegistry ==
    /\ ~built
    /\ registry' = getXsdNamespaces(doc)
    /\ built' = TRUE
    /\ UNCHANGED <<doc, cacheVars, scanVars, managerVars, textVars>>

----------------------------------------------------------------------------
(* XsdManager (src/src/XsdManager.ts) and getXsdWorkersForNamespace *)

Xsds == [path : Paths, value : {"xsd"}]

\* new XsdWorker(xsd)
XsdWorker(xsd) == [xsd |-> xsd]

\* XsdWorker.withNamespace: the source bound to a prefix
withNamespace(xsdWorker, namespace) == [prefix |-> namespace, source |-> xsdWorker]

ManagerGet(path) == MapGet(xsdWorkers, path)

ManagerHas(path) == MapHas(xsdWorkers, path)

\* selected: the last getXsdWorkersForNamespace call, none yet when empty
ManagerIdle == xsdWorkers = <<>> /\ selected = <<>>

ManagerSet ==
    /\ \E xsd \in Xsds : xsdWorkers' = MapSet(xsdWorkers, xsd.path, XsdWorker(xsd))
    /\ UNCHANGED <<selected, cacheVars, scanVars, nsVars, textVars>>

ManagerDelete ==
    /\ \E path \in Paths : xsdWorkers' = MapDelete(xsdWorkers, path)
    /\ UNCHANGED <<selected, cacheVars, scanVars, nsVars, textVars>>

\* delete, then set: the entry moves to the end of the map
ManagerUpdate ==
    /\ \E xsd \in Xsds :
          xsdWorkers' = MapSet(MapDelete(xsdWorkers, xsd.path), xsd.path, XsdWorker(xsd))
    /\ UNCHANGED <<selected, cacheVars, scanVars, nsVars, textVars>>

RECURSIVE WorkersOfAll(_, _)
\* the loop of the else branch, over namespaces.entries()
WorkersOfAll(out, entries) ==
    IF entries = <<>> THEN out
    ELSE LET namespace == Head(entries)[1]
             namespaceInfo == Head(entries)[2]
         IN  WorkersOfAll(
                 IF /\ (ManagerHas(namespaceInfo.path) \/ namespace = Undefined \/ namespace = "")
                    /\ ManagerHas(namespaceInfo.path)   \* if (xsdWorker)
                 THEN Append(out, withNamespace(ManagerGet(namespaceInfo.path),
                                                namespaceInfo.prefix))
                 ELSE out,
                 Tail(entries))

\* `if (namespace)`: undefined and the empty string are falsy
getXsdWorkersForNamespace(namespaces, namespace) ==
    IF namespace # Undefined /\ namespace # ""
    THEN IF MapHas(namespaces, namespace)   \* if (namespaceInfo)
         THEN LET namespaceInfo == MapGet(namespaces, namespace)
              IN  IF ManagerHas(namespaceInfo.path)   \* if (xsdWorker)
                  THEN <<withNamespace(ManagerGet(namespaceInfo.path), namespace)>>
                  ELSE <<>>
         ELSE <<>>
    ELSE WorkersOfAll(<<>>, namespaces)

\* getXsdNamespaces and getXsdWorkersForNamespace as getCompletions runs them
Select ==
    /\ \E namespace \in Prefixes \cup {""} :
          /\ registry' = getXsdNamespaces(doc)
          /\ selected' = <<[result |-> getXsdWorkersForNamespace(registry', namespace),
                            namespace |-> namespace, loaded |-> xsdWorkers]>>
    /\ built' = TRUE
    /\ UNCHANGED <<doc, xsdWorkers, cacheVars, scanVars, textVars>>

----------------------------------------------------------------------------
(* Text and the regular expressions of XsdCompletion.  A text is a         *)
(* sequence of one-character strings; positions count from 1.              *)

Quote == "\""

\* \s, and the line terminators `.` does not match
IsWhitespace(c) == c \in {" ", "\n", "\t"}
IsLineTerminator(c) == c = "\n"

\* [A-Za-z0-9], as far as the alphabets below go
IsAlnum(c) == c \in {"a", "b", "c", "p", "q", "u", "0", "1"}

\* [^?\s|/>]
IsTagNameChar(c) == ~(c \in {"?", "|", "/", ">"} \/ IsWhitespace(c))

\* /="[^"]+$/ matches somewhere in text
isInsideAttributeValue(t) ==
    \E i \in 1..Len(t) :
        /\ i + 2 <= Len(t)
        /\ t[i] = "=" /\ t[i + 1] = Quote
        /\ \A j \in (i + 2)..Len(t) : t[j] # Quote

\* the end of the longest run of characters satisfying Class(_) that starts at s
\* (s - 1 when t[s] is not in the class)
RECURSIVE RunEndAlnum(_, _)
RunEndAlnum(t, s) ==
    IF s <= Len(t) /\ IsAlnum(t[s]) THEN RunEndAlnum(t, s + 1) ELSE s - 1

RECURSIVE RunEndTagName(_, _)
RunEndTagName(t, s) ==
    IF s <= Len(t) /\ IsTagNameChar(t[s]) THEN RunEndTagName(t, s + 1) ELSE s - 1

RECURSIVE AttributesFrom(_, _)
\* the matches of /(?<=\s)[A-Za-z0-9]+/g from position s on
AttributesFrom(t, s) ==
    IF s > Len(t) THEN <<>>
    ELSE IF s >= 2 /\ IsWhitespace(t[s - 1]) /\ IsAlnum(t[s])
         THEN <<SubSeq(t, s, RunEndAlnum(t, s))>> \o AttributesFrom(t, RunEndAlnum(t, s) + 1)
         ELSE AttributesFrom(t, s + 1)

getAttributesFromText(t) == AttributesFrom(t, 1)

textContainsAttributes(t) == Len(getAttributesFromText(t)) > 0

\* (?<=<|<\/) holds at position s
TagLookbehind(t, s) ==
    \/ s >= 2 /\ t[s - 1] = "<"
    \/ s >= 3 /\ t[s - 2] = "<" /\ t[s - 1] = "/"

\* .+\/> matches at position e: some "/>" later on the same line, at least one
\* character away
SelfClosingAhead(t, e) ==
    \E j \in (e + 1)..(Len(t) - 1) :
        /\ t[j] = "/" /\ t[j + 1] = ">"
        /\ \A k \in e..(j - 1) : ~IsLineTerminator(t[k])

\* the end of the match of [^?\s|/>]+(?!.+\/>) that starts at s, 0 when there is
\* none: the longest run first, then shorter ones (backtracking)
TagMatchEnd(t, s) ==
    LET ends == {e \in s..RunEndTagName(t, s) : ~SelfClosingAhead(t, e + 1)}
    IN  IF TagLookbehind(t, s) /\ ends # {}
        THEN CHOOSE e \in ends : \A f \in ends : f <= e
        ELSE 0

RECURSIVE TagsFrom(_, _)
\* the matches of /(?<=<|<\/)[^?\s|/>]+(?!.+\/>)/g from position s on
TagsFrom(t, s) ==
    IF s > Len(t) THEN <<>>
    ELSE IF TagMatchEnd(t, s) # 0
         THEN <<SubSeq(t, s, TagMatchEnd(t, s))>> \o TagsFrom(t, TagMatchEnd(t, s) + 1)
         ELSE TagsFrom(t, s + 1)

getTagsFromText(t) == TagsFrom(t, 1)

textContainsTags(t) == Len(getTagsFromText(t)) > 0

----------------------------------------------------------------------------
(* The text model (monaco ITextModel), read at the cursor *)

\* number of characters of the cursor's line that precede / follow the cursor
RECURSIVE LineStart(_, _)
LineStart(t, o) ==
    IF o = 0 \/ IsLineTerminator(t[o]) THEN o ELSE LineStart(t, o - 1)

RECURSIVE LineEnd(_, _)
LineEnd(t, o) ==
    IF o = Len(t) \/ IsLineTerminator(t[o + 1]) THEN o ELSE LineEnd(t, o + 1)

\* model.getLineContent(position.lineNumber): the whole line of the cursor
getLineContent(t, o) == SubSeq(t, LineStart(t, o) + 1, LineEnd(t, o))

\* model.getValueInRange from (1, 1) to the position
getTextUntilPosition(t, o) == SubSeq(t, 1, o)

----------------------------------------------------------------------------
(* getCompletionType (src/src/XsdCompletion.ts:87-150) *)

TriggerCharacters == {"<", " ", "/"}

getCompletionTypeForIncompleteCompletion(t) ==
    IF textContainsAttributes(t) THEN "incompleteAttribute"
    ELSE IF textContainsTags(t) THEN "incompleteElement"
    ELSE "snippet"

getCompletionTypeByTriggerCharacter(triggerCharacter) ==
    CASE triggerCharacter = "<" -> "element"
      [] triggerCharacter = " " -> "attribute"
      [] triggerCharacter = "/" -> "closingElement"
      [] OTHER -> "none"

getCompletionType(t, o, context) ==
    LET wordsBeforePosition == getLineContent(t, o)
    IN  IF isInsideAttributeValue(wordsBeforePosition) THEN "none"
        ELSE IF context.triggerKind \in {"Invoke", "TriggerForIncompleteCompletions"}
             THEN getCompletionTypeForIncompleteCompletion(wordsBeforePosition)
             ELSE getCompletionTypeByTriggerCharacter(context.triggerCharacter)

TextIdle == text = <<>> /\ offset = 0 /\ request = <<>>

\* the host asks for completions: explicitly, or to continue an incomplete list
ClassifyInvoke ==
    /\ \E kind \in {"Invoke", "TriggerForIncompleteCompletions"} :
          LET context == [triggerCharacter |-> Undefined, triggerKind |-> kind]
          IN  request' = <<[context |-> context,
                            completionType |-> getCompletionType(text, offset, context)]>>
    /\ UNCHANGED <<text, offset, cacheVars, scanVars, nsVars, managerVars>>

\* the host asks because the character just typed, the one before the cursor,
\* is one of the provider's triggerCharacters
ClassifyTriggerCharacter ==
    /\ offset >= 1
    /\ text[offset] \in TriggerCharacters
    /\ LET context == [triggerCharacter |-> text[offset], triggerKind |-> "TriggerCharacter"]
       IN  request' = <<[context |-> context,
                         completionType |-> getCompletionType(text, offset, context)]>>
    /\ UNCHANGED <<text, offset, cacheVars, scanVars, nsVars, managerVars>>

----------------------------------------------------------------------------
(* getParentTag and getCompletions (src/src/XsdCompletion.ts:62-85,        *)
(* 152-213, 269-309)                                                       *)

\* the word separators of the editor's default word definition, as far as the
\* alphabets go
IsWordChar(c) ==
    ~(IsWhitespace(c) \/ c \in {"<", ">", "/", ":", "=", Quote, "?", "|"})

RECURSIVE WordStart(_, _)
WordStart(t, o) == IF o >= 1 /\ IsWordChar(t[o]) THEN WordStart(t, o - 1) ELSE o

RECURSIVE WordEnd(_, _)
WordEnd(t, o) == IF o < Len(t) /\ IsWordChar(t[o + 1]) THEN WordEnd(t, o + 1) ELSE o

\* model.getWordAtPosition(position).word: the word the cursor is in or touches;
\* the empty sequence stands for null
getWordAtPosition(t, o) == SubSeq(t, WordStart(t, o) + 1, WordEnd(t, o))

RECURSIVE PopUntil(_, _)
\* while (parentTags[parentTags.length - 1] !== tag) parentTags.pop()
PopUntil(stack, tag) ==
    IF stack # <<>> /\ Top(stack) = tag THEN stack ELSE PopUntil(Pop(stack), tag)

RECURSIVE UnclosedFrom(_, _)
UnclosedFrom(stack, tokens) ==
    IF tokens = <<>> THEN stack
    ELSE UnclosedFrom(
            IF Includes(stack, Head(tokens))
            THEN Pop(PopUntil(stack, Head(tokens)))
            ELSE Append(stack, Head(tokens)),
            Tail(tokens))

\* getUnclosedTags as a function of the text
getUnclosedTags(t) == UnclosedFrom(<<>>, getTagsFromText(t))

RECURSIVE SplitFrom(_, _, _)
SplitFrom(t, sep, s) ==
    IF \E k \in s..Len(t) : t[k] = sep
    THEN LET k == CHOOSE j \in s..Len(t) : t[j] = sep /\ \A i \in s..(j - 1) : t[i] # sep
         IN  <<SubSeq(t, s, k - 1)>> \o SplitFrom(t, sep, k + 1)
    ELSE <<SubSeq(t, s, Len(t))>>

\* String.prototype.split(separator)
Split(t, sep) == SplitFrom(t, sep, 1)

wordAtPositionIsEqualToLastUnclosedTag(wordAtPosition, unclosedTags) ==
    /\ wordAtPosition # <<>>
    /\ unclosedTags # <<>>
    /\ wordAtPosition = Top(unclosedTags)

\* a string, or Undefined when the stack is too short
getParentTag(t, o) ==
    LET unclosedTags == getUnclosedTags(getTextUntilPosition(t, o))
        wordAtPosition == getWordAtPosition(t, o)
        tagsInLine == getTagsFromText(getLineContent(t, o))
        lastTagParts == Split(tagsInLine[Len(tagsInLine)], ":")
    IN  IF wordAtPositionIsEqualToLastUnclosedTag(wordAtPosition, unclosedTags)
        THEN ArrGet(unclosedTags, Len(unclosedTags) - 2)
        ELSE IF /\ Len(tagsInLine) > 0
                /\ wordAtPosition # <<>>
                /\ Len(lastTagParts) >= 2
                /\ lastTagParts[2] # <<>>
                /\ lastTagParts[2] = wordAtPosition
             THEN ArrGet(unclosedTags, Len(unclosedTags) - 2)
             ELSE ArrGet(unclosedTags, Len(unclosedTags) - 1)

getClosingElementCompletion(element) ==
    <<[kind |-> "Property", label |-> element, detail |-> "Close tag",
       insertText |-> element]>>

getCompletionNamespace(t, o) ==
    LET tagsInLine == getTagsFromText(getLineContent(t, o))
        tagParts == Split(tagsInLine[Len(tagsInLine)], ":")
    IN  IF Len(tagsInLine) > 0 /\ Len(tagParts) > 1 THEN tagParts[1] ELSE <<>>

getTagWithoutNamespace(tag) ==
    LET tagParts == Split(tag, ":")
    IN  tagParts[Len(tagParts)]

\* the string a text denotes among the names of the namespace vocabulary
Str(t) ==
    CASE t = <<>> -> ""
      [] t = <<"p">> -> "p"
      [] t = <<"q">> -> "q"
      [] t = <<"u">> -> "u"
      [] OTHER -> "(other)"

\* XsdWorker.doCompletion: the schema's suggestions for the request, one record
\* per suggested name
doCompletion(xsdWorker, completionType, parentTag) ==
    LET names == IF completionType \in {"attribute", "incompleteAttribute"}
                 THEN XsdAttributesForElement(parentTag)
                 ELSE IF parentTag = Undefined THEN XsdRootElements
                 ELSE XsdSubElements(parentTag)
    IN  [k \in 1..Len(names) |->
            [kind |-> completionType, label |-> names[k],
             detail |-> xsdWorker.prefix, insertText |-> names[k]]]

RECURSIVE CompletionsOf(_, _, _)
CompletionsOf(workers, completionType, parentTag) ==
    IF workers = <<>> THEN <<>>
    ELSE doCompletion(Head(workers), completionType, parentTag)
            \o CompletionsOf(Tail(workers), completionType, parentTag)

\* `if (parentTag)`: undefined and the empty string are falsy
getCompletions(t, o, context, d) ==
    LET completionType == getCompletionType(t, o, context)
        parentTag == getParentTag(t, o)
        namespaces == getXsdNamespaces(d)
        completionNamespace == Str(getCompletionNamespace(t, o))
        workers == getXsdWorkersForNamespace(namespaces, completionNamespace)
        strippedTag == IF parentTag # Undefined /\ parentTag # <<>>
                       THEN getTagWithoutNamespace(parentTag) ELSE parentTag
    IN  IF completionType = "none" THEN <<>>
        ELSE IF completionType = "closingElement" THEN getClosingElementCompletion(parentTag)
        ELSE CompletionsOf(workers, completionType, strippedTag)

\* one request; parentTag holds getParentTag's result when getCompletions got as
\* far as calling it (line 70), and is empty when it returned at line 68
Complete(context) ==
    /\ request' = <<[context |-> context,
                     completionType |-> getCompletionType(text, offset, context),
                     parentTag |-> IF getCompletionType(text, offset, context) = "none"
                                   THEN <<>>
                                   ELSE <<getParentTag(text, offset)>>,
                     completions |-> getCompletions(text, offset, context, doc)]>>
    /\ UNCHANGED <<text, offset, cacheVars, scanVars, nsVars, managerVars>>

\* provideCompletionItems on an explicit invocation or for an incomplete list
CompleteInvoke ==
    \E kind \in {"Invoke", "TriggerForIncompleteCompletions"} :
        Complete([triggerCharacter |-> Undefined, triggerKind |-> kind])

\* provideCompletionItems because the character before the cursor was typed
\* and is one of the provider's triggerCharacters
CompleteTriggerCharacter ==
    /\ offset >= 1
    /\ text[offset] \in TriggerCharacters
    /\ Complete([triggerCharacter |-> text[offset], triggerKind |-> "TriggerCharacter"])

----------------------------------------------------------------------------
(* Specifications *)

InitCache == CacheIdle /\ ScanIdle /\ NsIdle /\ ManagerIdle /\ TextIdle
NextCache == CallElements \/ CallAttributes
SpecCache == InitCache /\ [][NextCache]_vars

InitScan ==
    /\ CacheIdle /\ NsIdle /\ ManagerIdle /\ TextIdle
    /\ tags \in SeqsUpTo(TagNames, MaxTags)
    /\ parentTags = <<>>
    /\ tagIdx = 0
    /\ pc = "map"
NextScan == MapCallback \/ WhilePop \/ WhileExit \/ ScanReturn
SpecScan == InitScan /\ [][NextScan]_vars

InitRegistry ==
    /\ CacheIdle /\ ScanIdle /\ ManagerIdle /\ TextIdle
    /\ doc \in Docs
    /\ registry = <<>>
    /\ built = FALSE
NextRegistry == BuildRegistry
SpecRegistry == InitRegistry /\ [][NextRegistry]_vars

InitSelect == InitRegistry
NextSelect == ManagerSet \/ ManagerDelete \/ ManagerUpdate \/ Select
SpecSelect == InitSelect /\ [][NextSelect]_vars

\* one line of text, the cursor anywhere in it
LineChars == {"<", "/", ">", " ", "a", "=", Quote, "?"}

InitClassify ==
    /\ CacheIdle /\ ScanIdle /\ NsIdle /\ ManagerIdle
    /\ text \in SeqsUpTo(LineChars, MaxLine)
    /\ offset \in 0..Len(text)
    /\ request = <<>>
NextClassify == ClassifyInvoke \/ ClassifyTriggerCharacter
SpecClassify == InitClassify /\ [][NextClassify]_vars

\* a document of several lines, the cursor anywhere in it; later lines the tag
\* expressions never read hold the namespace declarations of `doc`
DocChars == {"<", "/", ">", " ", "p", ":", "\n"}

CompletionDocs ==
    {EmptyDoc,
     [decls |-> <<[prefix |-> "p", uri |-> "u"]>>,
      locs |-> <<[lead |-> FALSE, words |-> <<"u", "a.xsd">>]>>, noNs |-> <<>>],
     [decls |-> <<[prefix |-> "q", uri |-> "p"]>>,
      locs |-> <<[lead |-> FALSE, words |-> <<"p", "a.xsd">>]>>, noNs |-> <<>>]}

InitCompletions ==
    /\ CacheIdle /\ ScanIdle
    /\ text \in SeqsUpTo(DocChars, MaxText)
    /\ offset \in 0..Len(text)
    /\ request = <<>>
    /\ doc \in CompletionDocs
    /\ registry = <<>> /\ built = FALSE
    /\ xsdWorkers \in {<<>>, <<<<"a.xsd", XsdWorker([path |-> "a.xsd", value |-> "xsd"])>>>>}
    /\ selected = <<>>
NextCompletions == CompleteInvoke \/ CompleteTriggerCharacter
SpecCompletions == InitCompletions /\ [][NextCompletions]_vars

----------------------------------------------------------------------------
(* Claims about CodeSuggestionCache, checked under SpecCache *)

CallKey(k) == <<calls[k].op, calls[k].arg>>

IsCall(k, op, arg) == calls[k].op = op /\ calls[k].arg = arg

FirstCallOf(k) == \A i \in 1..(k - 1) : CallKey(i) # CallKey(k)

CountFetches(k, what) ==
    Cardinality({f \in 1..Len(calls[k].fetched) : calls[k].fetched[f][1] = what})

\* C1: on one cache instance every call after the first one for a lookup key
\* (root, sub-elements of p, attributes of e) makes no provider call and returns
\* the list the first call for that key returned, whatever calls for other keys
\* came in between; and when the first two calls of an instance are
\* elements(absent), getRootElements is invoked exactly once by the two together
\* and both return equal results.
C1_Memoization ==
    /\ \A i \in 1..Len(calls) : \A j \in (i + 1)..Len(calls) :
          (FirstCallOf(i) /\ CallKey(j) = CallKey(i)) =>
              /\ calls[j].fetched = <<>>
              /\ calls[j].result = calls[i].result
    /\ (Len(calls) >= 2 /\ IsCall(1, "elements", Undefined) /\ IsCall(2, "elements", Undefined)) =>
          /\ CountFetches(1, "getRootElements") + CountFetches(2, "getRootElements") = 1
          /\ calls[1].result = calls[2].result

\* two successive root calls, then a key repeated after a call for another key
C1_Witness ==
    /\ Len(calls) >= 4
    /\ IsCall(1, "elements", Undefined) /\ IsCall(2, "elements", Undefined)
    /\ \E i, j, k \in 1..Len(calls) :
          /\ i < j /\ j < k
          /\ CallKey(i) = CallKey(k) /\ CallKey(j) # CallKey(i)
          /\ calls[j].fetched # <<>>
          /\ calls[k].fetched = <<>>

BothCalledBy(n, k) ==
    /\ \E i \in 1..k : IsCall(i, "elements", n)
    /\ \E i \in 1..k : IsCall(i, "attributes", n)

ProviderAnswer(op, arg) ==
    IF op = "attributes" THEN XsdAttributesForElement(arg)
    ELSE IF arg = Undefined THEN XsdRootElements ELSE XsdSubElements(arg)

\* C2: for every name n, once elements(n) and attributes(n) have both been
\* called on the instance (other calls interleaved), elements(n) returns the
\* provider's sub-element list of n and attributes(n) the provider's attribute
\* list of n.
C2_KeyIndependence ==
    \A n \in ElementNames : \A k \in 1..Len(calls) :
        (calls[k].arg = n /\ BothCalledBy(n, k)) =>
            calls[k].result = ProviderAnswer(calls[k].op, n)

\* C2 for the names other than the cache's own root key, which holds:
\* indexOf gives both collections the same first index of n.
C2_OrdinaryNames ==
    \A n \in ElementNames \ {"rootElements"} : \A k \in 1..Len(calls) :
        (calls[k].arg = n /\ BothCalledBy(n, k)) =>
            calls[k].result = ProviderAnswer(calls[k].op, n)

\* C9: root and named-parent lookups are separate keys: elements(absent)
\* returns getRootElements(), elements(p) returns getSubElements(p) for every
\* name p, and the first call for either key fetches it whatever is cached.
C9_RootAndParentKeys ==
    \A k \in 1..Len(calls) :
        calls[k].op = "elements" =>
            /\ calls[k].result = ProviderAnswer("elements", calls[k].arg)
            /\ FirstCallOf(k) =>
                  calls[k].fetched =
                      IF calls[k].arg = Undefined THEN << <<"getRootElements">> >>
                      ELSE << <<"getSubElements", calls[k].arg>> >>

----------------------------------------------------------------------------
(* Claims about getUnclosedTags, checked under SpecScan *)

\* a token found in the stack closes: it goes with everything above it;
\* a token not found opens: it is appended
CloseOrOpen(stack, tag) ==
    IF \E p \in 1..Len(stack) : stack[p] = tag
    THEN LET p == CHOOSE q \in 1..Len(stack) : stack[q] = tag
         IN  SubSeq(stack, 1, p - 1)
    ELSE Append(stack, tag)

RECURSIVE StackFold(_, _)
StackFold(stack, tokens) ==
    IF tokens = <<>> THEN stack
    ELSE StackFold(CloseOrOpen(stack, Head(tokens)), Tail(tokens))

\* strictly decreases with every step of the scan
ScanMeasure ==
    3 * (Len(tags) - tagIdx) + Len(parentTags) + (IF pc = "map" THEN 1 ELSE 0)

\* C6: for every token sequence the scan returns the name-matched stack fold
\* (tokens a,b,b give [a]; a,b,c,b give [a]); it never pops a stack that lacks
\* the token it is closing, and every step brings it nearer to its return.
C6_UnclosedTagsIsFold ==
    /\ [](/\ pc = "done" => parentTags = StackFold(<<>>, tags)
          /\ (pc = "done" /\ tags = <<"a", "b", "b">>) => parentTags = <<"a">>
          /\ (pc = "done" /\ tags = <<"a", "b", "c", "b">>) => parentTags = <<"a">>
          /\ pc = "while" => Includes(parentTags, tags[tagIdx + 1])
          /\ pc # "done" => ENABLED NextScan)
    /\ [][ScanMeasure' < ScanMeasure]_vars

\* crossed nesting scanned to the end
C6_Witness ==
    /\ pc = "done"
    /\ tags = <<"a", "b", "c", "b">>
    /\ parentTags = <<"a">>

----------------------------------------------------------------------------
(* Claims about the namespace registry, checked under SpecRegistry *)

\* the document declares xmlns:prefix="uri" (xmlns="uri" for prefix "")
Declares(d, prefix, uri) ==
    \E k \in 1..Len(d.decls) : d.decls[k] = [prefix |-> prefix, uri |-> uri]

\* the <<uri, path>> pairs the xsi:schemaLocation values spell out
SchemaLocationPairs(d) ==
    UNION {{<<d.locs[v].words[2 * i - 1], d.locs[v].words[2 * i]>> :
                i \in 1..(Len(d.locs[v].words) \div 2)} : v \in 1..Len(d.locs)}

\* all hints: the noNamespaceSchemaLocation paths go with 'file://' + path
HintPairs(d) ==
    SchemaLocationPairs(d) \cup {<<FileUri(d.noNs[k]), d.noNs[k]>> : k \in 1..Len(d.noNs)}

NoLeadingWhitespace(d) == \A v \in 1..Len(d.locs) : ~d.locs[v].lead

RegistryMaps(key, prefix, path) ==
    /\ MapHas(registry, key)
    /\ MapGet(registry, key) = [prefix |-> prefix, path |-> path]

DeclaredOnlyAs(d, p, u) ==
    /\ Declares(d, p, u)
    /\ \A k \in 1..Len(d.decls) : d.decls[k].uri = u => d.decls[k].prefix = p

HintedOnlyWith(d, u, path) ==
    /\ <<u, path>> \in SchemaLocationPairs(d)
    /\ \A h \in HintPairs(d) : (h[1] = u => h[2] = path) /\ (h[2] = path => h[1] = u)

ExtractedDeclsOf(d, uri) ==
    {k \in 1..Len(d.decls) : d.decls[k].uri = uri /\ ~ExcludedPrefix(d.decls[k].prefix)}

Last(S) == CHOOSE k \in S : \A j \in S : j <= k

\* C10 as claimed: when several declarations (prefixed or default) declare the
\* same URI u, the binding for u carries the prefix of the one that comes last
\* in document order.
C10_LastDeclarationWins ==
    built =>
        \A e \in 1..Len(registry) :
            LET declsOfKey == ExtractedDeclsOf(doc, registry[e][1])
            IN  Cardinality(declsOfKey) >= 2 =>
                    registry[e][2].prefix = doc.decls[Last(declsOfKey)].prefix

\* C10 as amended: when several declarations declare the same URI u, the
\* binding for u carries the empty prefix if any of them is a default
\* declaration, wherever it stands; otherwise the prefix of the prefixed
\* declaration that comes last in document order.
C10_DefaultThenLastPrefixed ==
    built =>
        \A e \in 1..Len(registry) :
            LET declsOfKey == ExtractedDeclsOf(doc, registry[e][1])
            IN  Cardinality(declsOfKey) >= 2 =>
                    registry[e][2].prefix =
                        IF \E k \in declsOfKey : doc.decls[k].prefix = ""
                        THEN ""
                        ELSE doc.decls[Last(declsOfKey)].prefix

\* a default declaration followed by a prefixed one of the same URI, and its
\* binding; and two prefixed declarations of one URI
C10_Witness ==
    /\ built
    /\ \E e \in 1..Len(registry) :
          /\ Len(doc.decls) >= 2
          /\ doc.decls[1] = [prefix |-> "", uri |-> registry[e][1]]
          /\ doc.decls[2] = [prefix |-> "p", uri |-> registry[e][1]]
          /\ registry[e][2].prefix = ""

----------------------------------------------------------------------------
(* Claim about schema selection, checked under SpecSelect *)

\* C4: for a non-empty requested prefix p, if the registry holds a binding whose
\* prefix is p and whose path is loaded in the XsdManager, activeSchemas returns
\* exactly one source: the one registered under that binding's path, bound to p.
C4_SelectByPrefix ==
    selected # <<>> =>
        LET sel == selected[1]
            bindings == {e \in 1..Len(registry) :
                            /\ registry[e][2].prefix = sel.namespace
                            /\ MapHas(sel.loaded, registry[e][2].path)}
        IN  (sel.namespace # "" /\ bindings # {}) =>
                \E e \in bindings :
                    sel.result =
                        <<withNamespace(MapGet(sel.loaded, registry[e][2].path),
                                        sel.namespace)>>

----------------------------------------------------------------------------
(* Claims about classification, checked under SpecClassify *)

\* the line of the cursor, up to the cursor
LineBeforeCursor(t, o) == SubSeq(t, LineStart(t, o) + 1, o)

\* an attribute-value opener =" in t with no closing quote after it, and zero
\* or more characters typed since
OpenAttributeValue(t) ==
    \E i \in 1..Len(t) :
        /\ i + 1 <= Len(t)
        /\ t[i] = "=" /\ t[i + 1] = Quote
        /\ \A j \in (i + 2)..Len(t) : t[j] # Quote

\* C5: whenever the line text before the cursor contains an attribute-value
\* opener =" not closed before the cursor (zero or more characters after the
\* quote, whatever follows the cursor), classify returns none for every trigger.
C5_AttributeValueSuppression ==
    (request # <<>> /\ OpenAttributeValue(LineBeforeCursor(text, offset)))
        => request[1].completionType = "none"

\* an attribute-name token, a word after whitespace, that follows a tag opener
AttributeTokenAfterOpener(t) ==
    \E i \in 2..Len(t) :
        /\ IsAlnum(t[i]) /\ IsWhitespace(t[i - 1])
        /\ \E k \in 1..(i - 1) : t[k] = "<"

\* C7: on a non-character trigger, for a line not inside an open attribute
\* value, the result is incompleteAttribute exactly when the line has an
\* attribute-name token following a tag opener, otherwise incompleteElement
\* exactly when it has a tag-name token, otherwise snippet; a line without any
\* tag opener is classified snippet.
C7_NonCharacterTriggers ==
    LET line == getLineContent(text, offset)
    IN  (/\ request # <<>>
         /\ request[1].context.triggerKind \in {"Invoke", "TriggerForIncompleteCompletions"}
         /\ ~OpenAttributeValue(LineBeforeCursor(text, offset))
         /\ ~isInsideAttributeValue(line))
            => /\ request[1].completionType =
                    IF AttributeTokenAfterOpener(line) THEN "incompleteAttribute"
                    ELSE IF textContainsTags(line) THEN "incompleteElement"
                    ELSE "snippet"
               /\ (\A k \in 1..Len(line) : line[k] # "<")
                    => request[1].completionType = "snippet"

----------------------------------------------------------------------------
(* Claim about getCompletions, checked under SpecCompletions *)

\* C8: when no element is open at the cursor (the unclosed-tag stack is empty),
\* a closing-tag request (trigger character '/') returns an empty suggestion
\* sequence; no completion record with an absent label is ever returned.
C8_AbsentParentGivesEmpty ==
    request # <<>> =>
        /\ (/\ request[1].context.triggerKind = "TriggerCharacter"
            /\ request[1].context.triggerCharacter = "/"
            /\ getUnclosedTags(getTextUntilPosition(text, offset)) = <<>>)
              => request[1].completions = <<>>
        /\ \A k \in 1..Len(request[1].completions) :
              request[1].completions[k].label # Undefined

----------------------------------------------------------------------------
(* parentTag selection                                                     *)

\* two results of getParentTag are the same: both absent, or the same name
SameTag(a, b) ==
    IF a # Undefined /\ b # Undefined THEN a = b
    ELSE (a # Undefined) <=> (b # Undefined)

\* the word under the cursor is the local form of the last tag-name token of
\* the cursor's line, the local form of an unprefixed token being the token
WordIsLocalFormOfLastTagInLine ==
    LET w == getWordAtPosition(text, offset)
        tagsInLine == getTagsFromText(getLineContent(text, offset))
    IN  /\ w # <<>>
        /\ Len(tagsInLine) > 0
        /\ getTagWithoutNamespace(tagsInLine[Len(tagsInLine)]) = w

WordIsTopOfStack ==
    LET S == getUnclosedTags(getTextUntilPosition(text, offset))
        w == getWordAtPosition(text, offset)
    IN  w # <<>> /\ S # <<>> /\ w = Top(S)

\* the last tag-name token of the cursor's line is prefix:local, with one colon
LastTagInLineIsPrefixed ==
    LET tagsInLine == getTagsFromText(getLineContent(text, offset))
    IN  /\ Len(tagsInLine) > 0
        /\ Len(Split(tagsInLine[Len(tagsInLine)], ":")) = 2

\* C11: with S the unclosed-tag stack up to the cursor and w the word under the
\* cursor, parentTag returns the second-from-top entry of S when w equals the
\* top entry of S or the local (namespace-stripped) form of the last tag-name
\* token on the cursor's line, prefixed or not; in every other case, no word
\* under the cursor included, it returns the top entry of S; an entry that
\* does not exist gives an absent result.
C11_ParentTagSelection ==
    (request # <<>> /\ request[1].parentTag # <<>>) =>
        LET S == getUnclosedTags(getTextUntilPosition(text, offset))
        IN  SameTag(request[1].parentTag[1],
                    IF WordIsTopOfStack \/ WordIsLocalFormOfLastTagInLine
                    THEN ArrGet(S, Len(S) - 2)
                    ELSE ArrGet(S, Len(S) - 1))

LastTagInLineHasAtMostOneColon ==
    LET tagsInLine == getTagsFromText(getLineContent(text, offset))
    IN  Len(tagsInLine) > 0 => Len(Split(tagsInLine[Len(tagsInLine)], ":")) <= 2

\* the same selection, for the requests in which the last tag-name token of the
\* cursor's line has at most one colon and either is of the form prefix:local
\* or has a local form other than the word under the cursor
C11_PrefixedTokens ==
    (/\ request # <<>> /\ request[1].parentTag # <<>>
     /\ LastTagInLineHasAtMostOneColon
     /\ (LastTagInLineIsPrefixed \/ ~WordIsLocalFormOfLastTagInLine)) =>
        LET S == getUnclosedTags(getTextUntilPosition(text, offset))
        IN  SameTag(request[1].parentTag[1],
                    IF WordIsTopOfStack \/ WordIsLocalFormOfLastTagInLine
                    THEN ArrGet(S, Len(S) - 2)
                    ELSE ArrGet(S, Len(S) - 1))

====
